---- MODULE Spec2Model ----
(***************************************************************************)
(* Model of the semantic weight engine of src/semantic_analysis.py:        *)
(*   - LangSemantics._parse_structure (the structure builder),              *)
(*   - LangElement.compute_weight (the weight scorer),                      *)
(*   - load_semantic_parser / has_semantic_parser (the analyzer registry),  *)
(*   - compute_semantic_weight, compute_semantic_weight_grouped and         *)
(*     compute_semantic_weight_result (the batch orchestrator).             *)
(* Python strings are modelled as sequences of one-character strings, so   *)
(* that splitting, stripping and integer conversion are computed the way   *)
(* the code computes them.                                                  *)
(***************************************************************************)
EXTENDS Integers, Sequences, FiniteSets, TLC

VARIABLES
    lines,      \* _parse_structure: the argument `lines`
    line_no,    \* _parse_structure: number of loop iterations completed
    elems,      \* _parse_structure: the heap of LangElement objects, root at index 1
    parent,     \* _parse_structure: the local `parent` (index into elems)
    parse_pc,   \* _parse_structure: "idle", "loop", "returned" or "raised"
    weight_model,   \* compute_weight: the argument `weight_model`
    weight_locals,  \* compute_weight: its local variables when it returns
    weight_pc,      \* compute_weight: "idle", "called" or "returned"
    SEMANTIC_ANALYZERS, \* the module-level cache: extension -> LangSemantics
    fs,             \* lang-semantics/<extension>: "absent", "empty" or "target"
    fs_changes,     \* number of changes made to the analyzer directories
    requests,       \* every load_semantic_parser call so far, and what it touched
    file_group,     \* compute_semantic_weight_result: the argument `file_group`
    verbose,        \* compute_semantic_weight_result: the argument `verbose`
    ret,            \* compute_semantic_weight_result: the local `ret`
    counter,        \* compute_semantic_weight_result: the local `counter`
    printed,        \* what print() has written
    group_no,       \* compute_semantic_weight_result: groups completed
    grouped_ret,    \* compute_semantic_weight_grouped: the local `ret`
    file_no,        \* compute_semantic_weight_grouped: files completed
    semantics,      \* compute_semantic_weight: the local `semantics`
    process,        \* LangSemantics.analyze: the last subprocess.run result
    pc,             \* "idle", "file", "compute", "analyze", "returned", "raised"
    error           \* the exception that ended the batch call

parse_vars == <<lines, line_no, parent, parse_pc>>
weight_vars == <<weight_model, weight_locals, weight_pc>>
registry_vars == <<SEMANTIC_ANALYZERS, fs, fs_changes, requests>>
batch_vars ==
    <<file_group, verbose, ret, counter, printed, group_no, grouped_ret, file_no,
      semantics, process, pc, error>>
vars ==
    <<lines, line_no, elems, parent, parse_pc, weight_model, weight_locals, weight_pc,
      SEMANTIC_ANALYZERS, fs, fs_changes, requests, file_group, verbose, ret,
      counter, printed, group_no, grouped_ret, file_no, semantics, process, pc, error>>

(***************************************************************************)
(* Bounds of the model.                                                     *)
(***************************************************************************)
MaxLines == 4
MaxGroups == 2
MaxFiles == 2
MaxBatchFiles == 2
MaxFsChanges == 1

MaxOf(S) == CHOOSE m \in S : \A x \in S : x <= m

(***************************************************************************)
(* Python str operations, on sequences of characters.                       *)
(***************************************************************************)
Digits == <<"0", "1", "2", "3", "4", "5", "6", "7", "8", "9">>

IsDigit(c) == \E d \in 1..10 : Digits[d] = c

DigitVal(c) == (CHOOSE d \in 1..10 : Digits[d] = c) - 1

\* str.isspace for the characters of the model's alphabet
IsSpace(c) == c \in {" ", "\n", "\t"}

RECURSIVE LStrip(_)
LStrip(s) == IF s # <<>> /\ IsSpace(Head(s)) THEN LStrip(Tail(s)) ELSE s

RECURSIVE RStrip(_)
RStrip(s) ==
    IF s # <<>> /\ IsSpace(s[Len(s)]) THEN RStrip(SubSeq(s, 1, Len(s) - 1)) ELSE s

\* str.strip()
Strip(s) == RStrip(LStrip(s))

\* str.find(c) + 1: the first position of c in s, 0 when there is none
Find(s, c) ==
    IF \E k \in 1..Len(s) : s[k] = c
    THEN CHOOSE k \in 1..Len(s) : s[k] = c /\ \A j \in 1..(k - 1) : s[j] # c
    ELSE 0

\* str.split(c, maxsplit=1)
SplitOnce(s, c) ==
    LET k == Find(s, c)
    IN  IF k = 0 THEN <<s>>
        ELSE <<SubSeq(s, 1, k - 1), SubSeq(s, k + 1, Len(s))>>

\* str.split(c)
RECURSIVE Split(_, _)
Split(s, c) ==
    LET k == Find(s, c)
    IN  IF k = 0 THEN <<s>>
        ELSE <<SubSeq(s, 1, k - 1)>> \o Split(SubSeq(s, k + 1, Len(s)), c)

\* str.replace(c, '')
Remove(s, c) == SelectSeq(s, LAMBDA x : x # c)

\* the digits of an int() argument: surrounding whitespace and one sign dropped
IntBody(s) ==
    LET t == Strip(s)
    IN  IF t # <<>> /\ Head(t) \in {"+", "-"} THEN Tail(t) ELSE t

\* int(s) succeeds: optional whitespace, optional sign, at least one digit
IsInt(s) ==
    /\ IntBody(s) # <<>>
    /\ \A k \in 1..Len(IntBody(s)) : IsDigit(IntBody(s)[k])

RECURSIVE DigitsVal(_)
DigitsVal(d) ==
    IF d = <<>> THEN 0
    ELSE 10 * DigitsVal(SubSeq(d, 1, Len(d) - 1)) + DigitVal(d[Len(d)])

\* int(s), for an s with IsInt(s)
ToInt(s) ==
    LET t == Strip(s)
    IN  IF Head(t) = "-" THEN 0 - DigitsVal(IntBody(s)) ELSE DigitsVal(IntBody(s))

(***************************************************************************)
(* LangElement                                                              *)
(***************************************************************************)
KindRoot == <<"r", "o", "o", "t">>
KindClass == <<"c", "l", "a", "s", "s">>
KindFunction == <<"f", "u", "n", "c", "t", "i", "o", "n">>
KindField == <<"f", "i", "e", "l", "d">>
KindProperty == <<"p", "r", "o", "p", "e", "r", "t", "y">>

None == 0

\* the value of `process` before any subprocess has run
NoProcess == [returncode |-> 0, stdout |-> <<>>]

\* LangElement.__init__: start and end are 0 after construction
LangElement(kind, par, children) ==
    [kind |-> kind, parent |-> par, children |-> children, start |-> 0, end |-> 0]

\* LangElement.in_range
in_range(self, start, end) == self.start <= start /\ self.end >= end

(***************************************************************************)
(* LangSemantics._parse_structure                                           *)
(***************************************************************************)
\* lines 114-118: the fields of one line; raised when an IndexError or a
\* ValueError leaves the loop body
ParseFields(line) ==
    LET split == SplitOnce(line, "-")
    IN  IF Len(split) < 2 THEN [raised |-> TRUE]
        ELSE LET kind == Strip(split[1])
                 ranges == Split(Remove(Remove(Strip(split[2]), "["), "]"), "-")
             IN  IF ~IsInt(ranges[1]) THEN [raised |-> TRUE]
                 ELSE IF Len(ranges) < 2 THEN [raised |-> TRUE]
                 ELSE IF ~IsInt(ranges[2]) THEN [raised |-> TRUE]
                 ELSE [raised |-> FALSE, kind |-> kind,
                       start |-> ToInt(ranges[1]), end |-> ToInt(ranges[2])]

\* a slip of lines 122-123: root.end follows the last element
RaiseRootEndToLast(root_end, end) == end

\* a slip of lines 122-124: the range test made before root.end is raised
RaiseRootEndNotYet(root_end, end) == root_end

\* lines 122-123: root.end after one element
RaiseRootEnd(root_end, end) == IF root_end < end THEN end ELSE root_end

\* lines 119-129: the heap and the anchor after one accepted line.
\* st = [elems, parent]; root is elems[1].
Attach(st, f) ==
    LET n    == Len(st.elems) + 1
        elem == [LangElement(f.kind, st.parent, <<>>) EXCEPT !.start = f.start, !.end = f.end]
        e1   == [Append(st.elems, elem) EXCEPT ![1].end = RaiseRootEnd(@, f.end)]
    IN  IF in_range(e1[st.parent], f.start, f.end)
        THEN [elems  |-> [e1 EXCEPT ![st.parent].children = Append(@, n)],
              parent |-> st.parent]
        ELSE [elems  |-> [e1 EXCEPT ![1].children = Append(@, n)],
              parent |-> IF f.kind = KindClass THEN n ELSE st.parent]

\* line 112: root = parent = LangElement('root', None, [])
ParseStart == [elems |-> <<LangElement(KindRoot, None, <<>>)>>, parent |-> 1]

\* the whole of _parse_structure, as the loop computes it
RECURSIVE ParseFrom(_, _, _)
ParseFrom(st, ls, k) ==
    IF k > Len(ls) THEN [raised |-> FALSE, elems |-> st.elems]
    ELSE LET f == ParseFields(ls[k])
         IN  IF f.raised THEN [raised |-> TRUE]
             ELSE ParseFrom(Attach(st, f), ls, k + 1)

parse_structure(ls) == ParseFrom(ParseStart, ls, 1)

(***************************************************************************)
(* Analyzer output lines used as inputs.                                    *)
(***************************************************************************)
LineClass0to100 ==
    <<"c", "l", "a", "s", "s", " ", "-", " ", "[", "0", "-", "1", "0", "0", "]", "\n">>
LineFunction10to20 ==
    <<"f", "u", "n", "c", "t", "i", "o", "n", " ", "-", " ", "[", "1", "0", "-", "2", "0", "]", "\n">>
LineFunction30to40 ==
    <<"f", "u", "n", "c", "t", "i", "o", "n", " ", "-", " ", "[", "3", "0", "-", "4", "0", "]", "\n">>
LineClass110to120 ==
    <<"c", "l", "a", "s", "s", " ", "-", " ", "[", "1", "1", "0", "-", "1", "2", "0", "]">>
\* 'class [0-100]': no separator
LineNoSeparator ==
    <<"c", "l", "a", "s", "s", " ", "[", "0", "-", "1", "0", "0", "]", "\n">>
\* 'class - 0-100': no brackets
LineNoBrackets ==
    <<"c", "l", "a", "s", "s", " ", "-", " ", "0", "-", "1", "0", "0", "\n">>
\* 'field - [1-2-3]': three numbers
LineThreeNumbers ==
    <<"f", "i", "e", "l", "d", " ", "-", " ", "[", "1", "-", "2", "-", "3", "]", "\n">>
\* ' - [5-9]': empty kind
LineEmptyKind == <<" ", "-", " ", "[", "5", "-", "9", "]", "\n">>
\* a blank line
LineBlank == <<"\n">>
\* 'function - [20-10]': start after end
LineReversed ==
    <<"f", "u", "n", "c", "t", "i", "o", "n", " ", "-", " ", "[", "2", "0", "-", "1", "0", "]", "\n">>
\* 'class - [a-5]': not a number
LineNotANumber ==
    <<"c", "l", "a", "s", "s", " ", "-", " ", "[", "a", "-", "5", "]", "\n">>

\* the four-line output of the specification's end-to-end example
ExampleOutput ==
    <<LineClass0to100, LineFunction10to20, LineFunction30to40, LineClass110to120>>

LineSet ==
    {LineClass0to100, LineFunction10to20, LineFunction30to40, LineClass110to120,
     LineNoSeparator, LineNoBrackets, LineThreeNumbers, LineEmptyKind, LineBlank,
     LineReversed, LineNotANumber}

SeqsUpTo(S, n) == UNION {[1..k -> S] : k \in 0..n}

(***************************************************************************)
(* The structure builder as a state machine: one step per loop iteration.   *)
(***************************************************************************)
WeightIdle ==
    /\ weight_model = None
    /\ weight_locals = None
    /\ weight_pc = "idle"

BatchIdle ==
    /\ SEMANTIC_ANALYZERS = <<>>
    /\ fs = <<>>
    /\ fs_changes = 0
    /\ requests = <<>>
    /\ file_group = <<>>
    /\ verbose = FALSE
    /\ ret = <<>>
    /\ counter = 1
    /\ printed = <<>>
    /\ group_no = 0
    /\ grouped_ret = <<>>
    /\ file_no = 0
    /\ semantics = None
    /\ process = NoProcess
    /\ pc = "idle"
    /\ error = None

InitParse ==
    /\ lines \in SeqsUpTo(LineSet, MaxLines)
    /\ line_no = 0
    /\ elems = ParseStart.elems
    /\ parent = ParseStart.parent
    /\ parse_pc = "loop"
    /\ WeightIdle
    /\ BatchIdle

\* one iteration of the for loop over an accepted line
ParseLine ==
    /\ parse_pc = "loop"
    /\ line_no < Len(lines)
    /\ ~ParseFields(lines[line_no + 1]).raised
    /\ LET st == Attach([elems |-> elems, parent |-> parent],
                        ParseFields(lines[line_no + 1]))
       IN  /\ elems' = st.elems
           /\ parent' = st.parent
    /\ line_no' = line_no + 1
    /\ UNCHANGED <<lines, parse_pc, weight_vars, registry_vars, batch_vars>>

\* one iteration that raises IndexError or ValueError: the call ends, no tree
ParseRaise ==
    /\ parse_pc = "loop"
    /\ line_no < Len(lines)
    /\ ParseFields(lines[line_no + 1]).raised
    /\ parse_pc' = "raised"
    /\ UNCHANGED <<lines, line_no, elems, parent, weight_vars, registry_vars, batch_vars>>

\* line 130: return root
ParseReturn ==
    /\ parse_pc = "loop"
    /\ line_no = Len(lines)
    /\ parse_pc' = "returned"
    /\ UNCHANGED <<lines, line_no, elems, parent, weight_vars, registry_vars, batch_vars>>

NextParse == ParseLine \/ ParseRaise \/ ParseReturn

SpecParse == InitParse /\ [][NextParse]_vars

(***************************************************************************)
(* LangElement.compute_weight.  Decimals are integers in hundredths: a      *)
(* multiplier 1.0 is One, 0.05 is 5; base weights and limits are whole      *)
(* numbers, so a weight is in hundredths too.                               *)
(***************************************************************************)
One == 100

\* the children of elems[self], as elements
Children(heap, self) ==
    [k \in 1..Len(heap[self].children) |-> heap[heap[self].children[k]]]

\* LangElement.classes: self and the children, filtered
classes(heap, self) ==
    SelectSeq(<<heap[self]>> \o Children(heap, self), LAMBDA x : x.kind = KindClass)

\* LangElement.functions
functions(heap, self) ==
    SelectSeq(Children(heap, self), LAMBDA x : x.kind = KindFunction)

\* LangElement.fields
fields(heap, self) ==
    SelectSeq(Children(heap, self), LAMBDA x : x.kind = KindField)

\* LangElement.properties
properties(heap, self) ==
    SelectSeq(Children(heap, self), LAMBDA x : x.kind = KindProperty)

\* lines 57-60
TotalLengthMultiplier(end, wm) ==
    IF end > wm.length_upper_limit THEN wm.length_upper_limit_multiplier
    ELSE IF end < wm.length_lower_limit THEN wm.length_lower_limit_multiplier
    ELSE One

\* lines 66-67
ClassCountMultiplier(class_count, wm) ==
    IF class_count > wm.class_upper_limit
    THEN wm.class_upper_limit_multiplier - 20 * (class_count - 1)
    ELSE One

\* a slip of lines 73-76: the upper rule with the step of the lower rule
FunctionCountMultiplierStep10(function_count, wm) ==
    IF function_count > wm.function_upper_limit
    THEN wm.function_upper_limit_multiplier - 10 * (function_count - 20)
    ELSE IF function_count < wm.function_lower_limit
    THEN wm.function_lower_limit_multiplier - 10 * (4 - function_count)
    ELSE One

\* lines 73-76
FunctionCountMultiplier(function_count, wm) ==
    IF function_count > wm.function_upper_limit
    THEN wm.function_upper_limit_multiplier - 5 * (function_count - 20)
    ELSE IF function_count < wm.function_lower_limit
    THEN wm.function_lower_limit_multiplier - 10 * (4 - function_count)
    ELSE One

\* a slip of line 80: the properties left out of the count
PropertyOrFieldCountFieldsOnly(heap, self) == Len(fields(heap, self))

\* line 80
PropertyOrFieldCount(heap, self) ==
    Len(fields(heap, self) \o properties(heap, self))

\* lines 82-87
PropertyOrFieldCountMultiplier(property_or_field_count, wm) ==
    IF property_or_field_count > wm.property_field_upper_limit
    THEN wm.property_field_upper_limit_multiplier - 5 * (property_or_field_count - 20)
    ELSE IF property_or_field_count < wm.property_field_lower_limit
    THEN wm.property_field_lower_limit_multiplier - 5 * (4 - property_or_field_count)
    ELSE One

\* compute_weight: the locals at `return weight`
compute_weight(heap, self, wm) ==
    LET total_length_multiplier == TotalLengthMultiplier(heap[self].end, wm)
        class_count == Len(classes(heap, self))
        class_count_multiplier == ClassCountMultiplier(class_count, wm)
        function_count == Len(functions(heap, self))
        function_count_multiplier == FunctionCountMultiplier(function_count, wm)
        property_or_field_count == PropertyOrFieldCount(heap, self)
        property_or_field_count_multiplier ==
            PropertyOrFieldCountMultiplier(property_or_field_count, wm)
    IN  [total_length_multiplier |-> total_length_multiplier,
         class_count_multiplier |-> class_count_multiplier,
         function_count_multiplier |-> function_count_multiplier,
         property_or_field_count_multiplier |-> property_or_field_count_multiplier,
         weight |-> wm.base_length_weight * total_length_multiplier
                    + wm.base_class_weight * class_count_multiplier
                    + wm.base_function_weight * function_count_multiplier
                    + wm.base_property_or_field_weight * property_or_field_count_multiplier]

(***************************************************************************)
(* The scorer as a state machine: the inputs are drawn in the initial       *)
(* state, one step applies compute_weight to elems[1].                      *)
(***************************************************************************)
KindComment == <<"c", "o", "m", "m", "e", "n", "t">>

\* an element of the given kind and end with nc class, nf function, nfi field
\* and np property children and one comment child
TreeWith(kind, end, nc, nf, nfi, np) ==
    LET n == nc + nf + nfi + np + 1
        kindOf(k) == IF k <= nc THEN KindClass
                     ELSE IF k <= nc + nf THEN KindFunction
                     ELSE IF k <= nc + nf + nfi THEN KindField
                     ELSE IF k <= nc + nf + nfi + np THEN KindProperty
                     ELSE KindComment
    IN  <<[LangElement(kind, None, [k \in 1..n |-> k + 1]) EXCEPT !.end = end]>>
        \o [k \in 1..n |-> [LangElement(kindOf(k), 1, <<>>) EXCEPT !.start = k, !.end = k]]

SelfKinds == {KindRoot, KindClass}
SelfEnds == {5, 50, 150}
ClassCounts == {0, 2, 30}
FunctionCounts == {0, 3, 10, 25}
FieldCounts == {0, 2, 22}
PropertyCounts == {0, 3}

WeightModels ==
    {[base_length_weight |-> 10,
      base_class_weight |-> 20,
      base_function_weight |-> 30,
      base_property_or_field_weight |-> 40,
      length_upper_limit |-> 100,
      length_lower_limit |-> 10,
      length_upper_limit_multiplier |-> lum,
      length_lower_limit_multiplier |-> 80,
      class_upper_limit |-> cul,
      class_upper_limit_multiplier |-> cum,
      function_upper_limit |-> ful,
      function_lower_limit |-> fll,
      function_upper_limit_multiplier |-> fum,
      function_lower_limit_multiplier |-> flm,
      property_field_upper_limit |-> pul,
      property_field_lower_limit |-> 4,
      property_field_upper_limit_multiplier |-> 90,
      property_field_lower_limit_multiplier |-> 110] :
        lum \in {50, 150}, cul \in {1, 5}, cum \in {100, 80},
        ful \in {20, 8}, fll \in {4, 1}, fum \in {100, 50}, flm \in {100, 120},
        pul \in {20, 4}}

ParseIdle ==
    /\ lines = <<>>
    /\ line_no = 0
    /\ parent = None
    /\ parse_pc = "idle"

InitWeight ==
    /\ ParseIdle
    /\ BatchIdle
    /\ \E kind \in SelfKinds, end \in SelfEnds, nc \in ClassCounts,
          nf \in FunctionCounts, nfi \in FieldCounts, np \in PropertyCounts :
            elems = TreeWith(kind, end, nc, nf, nfi, np)
    /\ weight_model \in WeightModels
    /\ weight_locals = None
    /\ weight_pc = "called"

\* self.compute_weight(weight_model) on the root of the heap
ComputeWeight ==
    /\ weight_pc = "called"
    /\ weight_locals' = compute_weight(elems, 1, weight_model)
    /\ weight_pc' = "returned"
    /\ UNCHANGED <<elems, weight_model, parse_vars, registry_vars, batch_vars>>

NextWeight == ComputeWeight

SpecWeight == InitWeight /\ [][NextWeight]_vars

(***************************************************************************)
(* The analyzer registry: load_semantic_parser and has_semantic_parser.     *)
(* A file is the characters of its name.                                    *)
(***************************************************************************)
FileCs == <<"a", ".", "c", "s">>
FileBin == <<"x", ".", "b", "i", "n">>
FileEnv == <<".", "e", "n", "v">>
FileLicence == <<"L", "I", "C", "E", "N", "C", "E">>

Files == {FileCs, FileBin, FileEnv, FileLicence}

\* PurePath.suffix: from the last '.', unless it starts or ends the name
Suffix(name) ==
    LET dots == {k \in 1..Len(name) : name[k] = "."}
        i    == IF dots = {} THEN 0 ELSE MaxOf(dots)
    IN  IF 1 < i /\ i < Len(name) THEN SubSeq(name, i, Len(name)) ELSE <<>>

\* str.lstrip(c)
RECURSIVE LStripChar(_, _)
LStripChar(s, c) == IF s # <<>> /\ Head(s) = c THEN LStripChar(Tail(s), c) ELSE s

\* lines 177-180: the extension key of a file, <<>> when there is none
Extension(file) ==
    LET extension == LStripChar(Suffix(file), ".")
    IN  IF extension = <<>> /\ file # <<>> /\ Head(file) = "." THEN file
        ELSE extension

ExtKeys == {Extension(f) : f \in Files} \ {<<>>}

FsStates == {"absent", "empty", "target"}

\* LangSemantics.__init__
LangSemantics(lang_dir, tool_executable) ==
    [lang_dir |-> lang_dir, tool |-> tool_executable]

\* the text of a descriptor file lang-semantics/<extension>/target
TargetText(extension) == <<"r", "u", "n">> \o extension

\* a slip of lines 197-199: the analyzer is built and returned but not stored
load_semantic_parser_unstored(file, cache, fsys) ==
    LET extension == Extension(file)
    IN  IF extension = <<>>
        THEN [result |-> "None", semantics |-> None, cache |-> cache,
              exists |-> FALSE, read_text |-> FALSE]
        ELSE IF extension \in DOMAIN cache
        THEN [result |-> "found", semantics |-> cache[extension], cache |-> cache,
              exists |-> FALSE, read_text |-> FALSE]
        ELSE IF fsys[extension] = "absent"
        THEN [result |-> "None", semantics |-> None, cache |-> cache,
              exists |-> TRUE, read_text |-> FALSE]
        ELSE IF fsys[extension] = "empty"
        THEN [result |-> "raised", semantics |-> None, cache |-> cache,
              exists |-> TRUE, read_text |-> TRUE]
        ELSE [result |-> "found",
              semantics |-> LangSemantics(extension, TargetText(extension)),
              cache |-> cache,
              exists |-> TRUE, read_text |-> TRUE]

\* load_semantic_parser: what it returns, the cache after it, and whether it
\* called lang_folder.exists() and target_file.read_text()
load_semantic_parser(file, cache, fsys) ==
    LET extension == Extension(file)
    IN  IF extension = <<>>
        THEN [result |-> "None", semantics |-> None, cache |-> cache,
              exists |-> FALSE, read_text |-> FALSE]
        ELSE IF extension \in DOMAIN cache
        THEN [result |-> "found", semantics |-> cache[extension], cache |-> cache,
              exists |-> FALSE, read_text |-> FALSE]
        ELSE IF fsys[extension] = "absent"
        THEN [result |-> "None", semantics |-> None, cache |-> cache,
              exists |-> TRUE, read_text |-> FALSE]
        ELSE IF fsys[extension] = "empty"
        THEN [result |-> "raised", semantics |-> None, cache |-> cache,
              exists |-> TRUE, read_text |-> TRUE]
        ELSE LET sem == LangSemantics(extension, TargetText(extension))
             IN  [result |-> "found", semantics |-> sem,
                  cache |-> (extension :> sem) @@ cache,
                  exists |-> TRUE, read_text |-> TRUE]

\* one entry of the log of load_semantic_parser calls: the file, its key, what
\* the cache and the directory were when it was called, what it returned and
\* what it touched
Request(file, r, cache, fsys) ==
    [file |-> file, extension |-> Extension(file),
     cached |-> Extension(file) \in DOMAIN cache,
     folder |-> IF Extension(file) \in DOMAIN fsys THEN fsys[Extension(file)] ELSE "absent",
     result |-> r.result, semantics |-> r.semantics,
     exists |-> r.exists, read_text |-> r.read_text]


(***************************************************************************)
(* The analyzer process and the weight model loader.                        *)
(***************************************************************************)
RECURSIVE Flatten(_)
Flatten(ss) == IF ss = <<>> THEN <<>> ELSE Head(ss) \o Flatten(Tail(ss))

\* str.splitlines(keepends=True), for the line break '\n'
RECURSIVE SplitLines(_)
SplitLines(text) ==
    LET k == Find(text, "\n")
    IN  IF text = <<>> THEN <<>>
        ELSE IF k = 0 THEN <<text>>
        ELSE <<SubSeq(text, 1, k)>> \o SplitLines(SubSeq(text, k + 1, Len(text)))

\* what subprocess.run can give: exit status and captured standard output
AnalyzerRuns ==
    {[returncode |-> 0, stdout |-> Flatten(ExampleOutput)],
     [returncode |-> 1, stdout |-> LineClass0to100],
     [returncode |-> 0, stdout |-> LineClass0to100 \o LineNoSeparator]}

\* SemanticWeightModel(): the default-constructed model
DefaultWeightModel ==
    [source |-> <<>>,
     base_length_weight |-> 0, base_class_weight |-> 0,
     base_function_weight |-> 0, base_property_or_field_weight |-> 0,
     length_upper_limit |-> 0, length_lower_limit |-> 0,
     length_upper_limit_multiplier |-> 0, length_lower_limit_multiplier |-> 0,
     class_upper_limit |-> 0, class_upper_limit_multiplier |-> 0,
     function_upper_limit |-> 0, function_lower_limit |-> 0,
     function_upper_limit_multiplier |-> 0, function_lower_limit_multiplier |-> 0,
     property_field_upper_limit |-> 0, property_field_lower_limit |-> 0,
     property_field_upper_limit_multiplier |-> 0,
     property_field_lower_limit_multiplier |-> 0]

\* SemanticWeightModel.parse(file): the model loaded for that file
SemanticWeightModelParse(file) ==
    [source |-> file,
     base_length_weight |-> 10, base_class_weight |-> 20,
     base_function_weight |-> 30, base_property_or_field_weight |-> 40,
     length_upper_limit |-> 100, length_lower_limit |-> 10,
     length_upper_limit_multiplier |-> 50, length_lower_limit_multiplier |-> 80,
     class_upper_limit |-> 5, class_upper_limit_multiplier |-> 100,
     function_upper_limit |-> 20, function_lower_limit |-> 4,
     function_upper_limit_multiplier |-> 100, function_lower_limit_multiplier |-> 100,
     property_field_upper_limit |-> 20, property_field_lower_limit |-> 4,
     property_field_upper_limit_multiplier |-> 90,
     property_field_lower_limit_multiplier |-> 110]

\* a Python value that is a LangElement: the root of the heap `heap`
LangElementRef(heap) == [class |-> "LangElement", elems |-> heap]

\* line 149: the pair appended when the file has no analyzer
FallbackPair ==
    <<DefaultWeightModel, LangElementRef(<<LangElement(KindRoot, None, <<>>)>>)>>

\* lines 105-107 for each captured output: decode, splitlines, _parse_structure
\* (a table, so that each output is parsed once)
Structure ==
    [stdout \in {run.stdout : run \in AnalyzerRuns} |->
        parse_structure(SplitLines(stdout))]

\* LangSemantics.analyze after a zero exit: raised, or the pair returned
analyze(file, stdout) ==
    LET structure == Structure[stdout]
    IN  IF structure.raised THEN [raised |-> TRUE]
        ELSE [raised |-> FALSE,
              pair |-> <<SemanticWeightModelParse(file), LangElementRef(structure.elems)>>]

(***************************************************************************)
(* The batch orchestrator: compute_semantic_weight_result, with             *)
(* compute_semantic_weight_grouped and compute_semantic_weight inlined at   *)
(* their calls.  The analyzer directories may change while it runs.         *)
(***************************************************************************)
RECURSIVE TotalFiles(_)
TotalFiles(groups) ==
    IF groups = <<>> THEN 0 ELSE Len(Head(groups)) + TotalFiles(Tail(groups))

\* the lists of file groups given to compute_semantic_weight_result
FileGroups ==
    {g \in SeqsUpTo(SeqsUpTo(Files, MaxFiles), MaxGroups) : TotalFiles(g) <= MaxBatchFiles}

Init ==
    /\ lines = <<>>
    /\ line_no = 0
    /\ elems = <<>>
    /\ parent = None
    /\ parse_pc = "idle"
    /\ WeightIdle
    /\ SEMANTIC_ANALYZERS = <<>>
    /\ fs = [x \in ExtKeys |-> IF x = Extension(FileBin) THEN "absent" ELSE "target"]
    /\ fs_changes = 0
    /\ requests = <<>>
    /\ file_group \in FileGroups
    /\ verbose \in BOOLEAN
    /\ ret = <<>>
    /\ counter = 1
    /\ printed = <<>>
    /\ group_no = 0
    /\ grouped_ret = <<>>
    /\ file_no = 0
    /\ semantics = None
    /\ process = NoProcess
    /\ pc = "file"
    /\ error = None

CurrentGroup == file_group[group_no + 1]
CurrentFile == CurrentGroup[file_no + 1]

\* a slip of line 160: the group's result put in front
PrependResult(list, item) == <<item>> \o list

\* lines 147, 149, 160: list.append
AppendResult(list, item) == Append(list, item)

\* lines 142-149: has_semantic_parser(abs_file), and the fallback when it is false
HasSemanticParser ==
    /\ pc = "file"
    /\ group_no < Len(file_group)
    /\ file_no < Len(CurrentGroup)
    /\ LET r == load_semantic_parser(CurrentFile, SEMANTIC_ANALYZERS, fs)
       IN  /\ SEMANTIC_ANALYZERS' = r.cache
           /\ requests' = Append(requests, Request(CurrentFile, r, SEMANTIC_ANALYZERS, fs))
           /\ IF r.result = "raised"
              THEN /\ pc' = "raised"
                   /\ error' = "FileNotFoundError"
                   /\ UNCHANGED <<grouped_ret, file_no>>
              ELSE IF r.result = "None"
              THEN /\ grouped_ret' = AppendResult(grouped_ret, FallbackPair)
                   /\ file_no' = file_no + 1
                   /\ UNCHANGED <<pc, error>>
              ELSE /\ pc' = "compute"
                   /\ UNCHANGED <<grouped_ret, file_no, error>>
    /\ UNCHANGED <<fs, fs_changes, file_group, verbose, ret, counter, printed,
                   group_no, semantics, process>>
    /\ UNCHANGED <<elems, parse_vars, weight_vars>>

\* lines 134-135: the second lookup and the assertion
ComputeSemanticWeight ==
    /\ pc = "compute"
    /\ LET r == load_semantic_parser(CurrentFile, SEMANTIC_ANALYZERS, fs)
       IN  /\ SEMANTIC_ANALYZERS' = r.cache
           /\ requests' = Append(requests, Request(CurrentFile, r, SEMANTIC_ANALYZERS, fs))
           /\ IF r.result = "raised"
              THEN /\ pc' = "raised"
                   /\ error' = "FileNotFoundError"
                   /\ UNCHANGED semantics
              ELSE IF r.result = "None"
              THEN /\ pc' = "raised"
                   /\ error' = "AssertionError"
                   /\ UNCHANGED semantics
              ELSE /\ pc' = "analyze"
                   /\ semantics' = r.semantics
                   /\ UNCHANGED error
    /\ UNCHANGED <<fs, fs_changes, file_group, verbose, ret, counter, printed,
                   group_no, grouped_ret, file_no, process>>
    /\ UNCHANGED <<elems, parse_vars, weight_vars>>

\* a slip of lines 102-109, 146-147: a failed analysis downgraded to the fallback
AnalyzeOutcomeFallback(file, run) ==
    IF run.returncode # 0 \/ analyze(file, run.stdout).raised
    THEN [raised |-> FALSE, pair |-> FallbackPair]
    ELSE analyze(file, run.stdout)

\* lines 104-109: subprocess.run(check=True) and the rest of analyze
AnalyzeOutcome(file, run) ==
    IF run.returncode # 0 THEN [raised |-> TRUE, error |-> "CalledProcessError"]
    ELSE IF analyze(file, run.stdout).raised THEN [raised |-> TRUE, error |-> "ParseError"]
    ELSE analyze(file, run.stdout)

\* lines 137, 146-147: semantics.analyze(file) and ret.append(sem_w)
Analyze ==
    /\ pc = "analyze"
    /\ \E run \in AnalyzerRuns :
        /\ process' = run
        /\ LET a == AnalyzeOutcome(CurrentFile, run)
           IN  IF a.raised
               THEN /\ pc' = "raised"
                    /\ error' = a.error
                    /\ UNCHANGED <<grouped_ret, file_no>>
               ELSE /\ grouped_ret' = AppendResult(grouped_ret, a.pair)
                    /\ file_no' = file_no + 1
                    /\ pc' = "file"
                    /\ UNCHANGED error
    /\ UNCHANGED <<file_group, verbose, ret, counter, printed, group_no, semantics>>
    /\ UNCHANGED <<registry_vars, elems, parse_vars, weight_vars>>

\* lines 150, 159-164: the group is done; its list is appended, progress printed
GroupedReturn ==
    /\ pc = "file"
    /\ group_no < Len(file_group)
    /\ file_no = Len(CurrentGroup)
    /\ ret' = AppendResult(ret, grouped_ret)
    /\ IF verbose
       THEN /\ printed' = Append(printed, [msg |-> "progress", counter |-> counter,
                                            total_groups |-> Len(file_group)])
            /\ counter' = counter + 1
       ELSE UNCHANGED <<printed, counter>>
    /\ group_no' = group_no + 1
    /\ grouped_ret' = <<>>
    /\ file_no' = 0
    /\ UNCHANGED <<file_group, verbose, semantics, process, pc, error>>
    /\ UNCHANGED <<registry_vars, elems, parse_vars, weight_vars>>

\* lines 166-168: the loop is over; return ret
ResultReturn ==
    /\ pc = "file"
    /\ group_no = Len(file_group)
    /\ printed' = IF verbose THEN Append(printed, [msg |-> "done"]) ELSE printed
    /\ pc' = "returned"
    /\ UNCHANGED <<file_group, verbose, ret, counter, group_no, grouped_ret, file_no,
                   semantics, process, error>>
    /\ UNCHANGED <<registry_vars, elems, parse_vars, weight_vars>>

\* the extension keys the batch call can ask the registry for
BatchKeys ==
    UNION {{Extension(file_group[i][j]) : j \in 1..Len(file_group[i])} :
              i \in 1..Len(file_group)}
    \cap ExtKeys

\* the environment: the analyzer directory of a key of the batch, or its
\* descriptor, appears or goes while the call runs
FsChange ==
    /\ pc \in {"file", "compute"}
    /\ fs_changes < MaxFsChanges
    /\ \E x \in BatchKeys, s \in FsStates :
        /\ s # fs[x]
        /\ fs' = [fs EXCEPT ![x] = s]
    /\ fs_changes' = fs_changes + 1
    /\ UNCHANGED <<SEMANTIC_ANALYZERS, requests, batch_vars>>
    /\ UNCHANGED <<elems, parse_vars, weight_vars>>

Next ==
    \/ HasSemanticParser
    \/ ComputeSemanticWeight
    \/ Analyze
    \/ GroupedReturn
    \/ ResultReturn
    \/ FsChange

Spec == Init /\ [][Next]_vars

(***************************************************************************)
(* The output line grammar  <kind><ws>-<ws>[<start>-<end>]  of the          *)
(* specification, stated on its own (the parser does not use it).           *)
(***************************************************************************)
Letters ==
    {"a", "b", "c", "d", "e", "f", "g", "h", "i", "j", "k", "l", "m", "n", "o",
     "p", "q", "r", "s", "t", "u", "v", "w", "x", "y", "z"}

IsIdentifier(s) == s # <<>> /\ \A k \in 1..Len(s) : s[k] \in Letters

IsNumber(s) == s # <<>> /\ \A k \in 1..Len(s) : IsDigit(s[k])

MatchesGrammar(line) ==
    LET t    == Strip(line)
        k    == Find(t, "-")
        rest == LStrip(SubSeq(t, k + 1, Len(t)))
        body == SubSeq(rest, 2, Len(rest) - 1)
        m    == Find(body, "-")
    IN  /\ k > 0
        /\ IsIdentifier(RStrip(SubSeq(t, 1, k - 1)))
        /\ Len(rest) >= 2
        /\ rest[1] = "["
        /\ rest[Len(rest)] = "]"
        /\ m > 0
        /\ IsNumber(SubSeq(body, 1, m - 1))
        /\ IsNumber(SubSeq(body, m + 1, Len(body)))

(***************************************************************************)
(* Claims about the structure builder, checked under SpecParse.             *)
(***************************************************************************)
IsElem(e, kind, start, end) == e.kind = kind /\ e.start = start /\ e.end = end

\* C3: parsing 'class - [0-100]', 'function - [10-20]', 'function - [30-40]',
\* 'class - [110-120]' yields a root with end 120 whose class [0-100] node has
\* exactly the two function children [10-20] and [30-40], and whose class
\* [110-120] node is a direct child of root with no children.
C3_ExampleTreeIsNested ==
    (lines = ExampleOutput /\ parse_pc = "returned") =>
        /\ elems[1].end = 120
        /\ \E c1, c2 \in 2..Len(elems) :
            /\ IsElem(elems[c1], KindClass, 0, 100)
            /\ Len(elems[c1].children) = 2
            /\ IsElem(elems[elems[c1].children[1]], KindFunction, 10, 20)
            /\ IsElem(elems[elems[c1].children[2]], KindFunction, 30, 40)
            /\ IsElem(elems[c2], KindClass, 110, 120)
            /\ \E j \in 1..Len(elems[1].children) : elems[1].children[j] = c2
            /\ elems[c2].children = <<>>

ParsedEnds == {elems[k].end : k \in 2..Len(elems)}

\* C4: after every prefix of the lines has been processed, and so in the tree
\* returned, the root's end equals the maximum end over all elements parsed so
\* far, wherever they were attached.
C4_RootEndIsMaxEnd ==
    (parse_pc \in {"loop", "returned"} /\ Len(elems) > 1) =>
        elems[1].end = MaxOf(ParsedEnds)

\* C4 witness: a returned tree of three or more elements whose last element
\* does not carry the maximum end
C4_Witness ==
    /\ parse_pc = "returned"
    /\ Len(elems) >= 4
    /\ elems[Len(elems)].end < elems[1].end
    /\ \A k \in 1..Len(lines) : MatchesGrammar(lines[k])

\* C5: a line that does not match the grammar is never accepted: every line
\* the loop has gone past matches the grammar (a malformed line ends the call
\* with an error).
C5_MalformedLineRaises ==
    \A k \in 1..line_no : MatchesGrammar(lines[k])

\* C9: every code element of every tree built satisfies start <= end.
C9_StartNotAfterEnd ==
    \A k \in 1..Len(elems) : elems[k].start <= elems[k].end

(***************************************************************************)
(* Claims about the weight scorer, checked under SpecWeight.                *)
(***************************************************************************)
\* the number of direct children of elems[1] whose kind is in kinds
DirectChildren(kinds) ==
    Cardinality({k \in 1..Len(elems[1].children) : elems[elems[1].children[k]].kind \in kinds})

SelfIfClass == IF elems[1].kind = KindClass THEN 1 ELSE 0

ClaimedLengthTerm ==
    weight_model.base_length_weight *
        (IF elems[1].end > weight_model.length_upper_limit
            THEN weight_model.length_upper_limit_multiplier
         ELSE IF elems[1].end < weight_model.length_lower_limit
            THEN weight_model.length_lower_limit_multiplier
         ELSE 100)

ClaimedClassTerm ==
    LET count == SelfIfClass + DirectChildren({KindClass})
    IN  weight_model.base_class_weight *
            (IF count > weight_model.class_upper_limit
                THEN weight_model.class_upper_limit_multiplier - 20 * (count - 1)
             ELSE 100)

ClaimedFunctionTerm ==
    LET count == DirectChildren({KindFunction})
    IN  weight_model.base_function_weight *
            (IF count > weight_model.function_upper_limit
                THEN weight_model.function_upper_limit_multiplier - 5 * (count - 20)
             ELSE IF count < weight_model.function_lower_limit
                THEN weight_model.function_lower_limit_multiplier - 10 * (4 - count)
             ELSE 100)

ClaimedPropertyOrFieldTerm ==
    LET count == DirectChildren({KindField, KindProperty})
    IN  weight_model.base_property_or_field_weight *
            (IF count > weight_model.property_field_upper_limit
                THEN weight_model.property_field_upper_limit_multiplier - 5 * (count - 20)
             ELSE IF count < weight_model.property_field_lower_limit
                THEN weight_model.property_field_lower_limit_multiplier - 5 * (4 - count)
             ELSE 100)

LengthExample ==
    /\ weight_model.base_length_weight = 10
    /\ weight_model.length_upper_limit = 100
    /\ weight_model.length_upper_limit_multiplier = 50
    /\ elems[1].end = 150

\* C6: compute_weight returns the unclamped sum of the length, class, function
\* and property/field terms, each baseWeight*multiplier with the multiplier 1.0
\* unless the count or length crosses a limit; with baseLengthWeight=10,
\* lengthUpperLimit=100, lengthUpperLimitMultiplier=0.5 and end=150 the length
\* term is exactly 5.0 (500 hundredths).
C6_WeightIsSumOfTerms ==
    weight_pc = "returned" =>
        /\ weight_locals.weight =
              ClaimedLengthTerm + ClaimedClassTerm + ClaimedFunctionTerm
              + ClaimedPropertyOrFieldTerm
        /\ LengthExample =>
              weight_locals.weight
              - (ClaimedClassTerm + ClaimedFunctionTerm + ClaimedPropertyOrFieldTerm) = 500

\* C6 witness: the length example, on an element with enough classes for the
\* total to be negative, and with fields and properties both present
C6_Witness ==
    /\ weight_pc = "returned"
    /\ LengthExample
    /\ weight_locals.weight < 0
    /\ DirectChildren({KindField}) > 0
    /\ DirectChildren({KindProperty}) > 0

TwentyFiveFunctions ==
    /\ weight_pc = "returned"
    /\ weight_model.function_upper_limit = 20
    /\ DirectChildren({KindFunction}) = 25

\* C10 as stated: with functionUpperLimit = 20 and exactly 25 direct function
\* children, the function-term multiplier is 0.75 for every weight model.
C10_MultiplierIsThreeQuarters ==
    TwentyFiveFunctions => weight_locals.function_count_multiplier = 75

\* C10 amended: with functionUpperLimit = 20 and exactly 25 direct function
\* children, the function-term multiplier is functionUpperLimitMultiplier
\* - 0.05*(25-20); it is 0.75 when functionUpperLimitMultiplier is 1.0.
C10_MultiplierIsUpperMinusQuarter ==
    TwentyFiveFunctions =>
        /\ weight_locals.function_count_multiplier =
              weight_model.function_upper_limit_multiplier - 25
        /\ weight_model.function_upper_limit_multiplier = 100 =>
              weight_locals.function_count_multiplier = 75

\* C10 witness: 25 function children, upper limit 20, upper multiplier 1.0
C10_Witness ==
    /\ TwentyFiveFunctions
    /\ weight_model.function_upper_limit_multiplier = 100
    /\ weight_locals.function_count_multiplier = 75

(***************************************************************************)
(* Claims about the batch orchestrator and the registry, checked under Spec.*)
(***************************************************************************)
\* the pair at a position of the result belongs to the file at that position
PairOf(file, pair) ==
    /\ pair[2].class = "LangElement"
    /\ \/ pair = FallbackPair
       \/ pair[1] = SemanticWeightModelParse(file)
    /\ Extension(file) = <<>> => pair = FallbackPair

\* C1: when compute_semantic_weight_result returns, the result has one entry
\* per input group in input order, and each entry has one (model, tree) pair
\* per file of the group in file order, whatever the verbose flag; without
\* verbose nothing is printed.
C1_ResultMirrorsInput ==
    pc = "returned" =>
        /\ Len(ret) = Len(file_group)
        /\ \A i \in 1..Len(file_group) :
            /\ Len(ret[i]) = Len(file_group[i])
            /\ \A j \in 1..Len(file_group[i]) : PairOf(file_group[i][j], ret[i][j])
        /\ ~verbose => printed = <<>>

\* C1 witness: a verbose call returned two groups with different results
C1_Witness ==
    /\ pc = "returned"
    /\ verbose
    /\ Len(ret) = 2
    /\ Len(ret[1]) = 1
    /\ Len(ret[2]) = 1
    /\ ret[1][1] = FallbackPair
    /\ ret[2][1] # FallbackPair
    /\ Len(printed) = 3

\* the registry had no analyzer to resolve at request k: no extension can be
\* derived, or the extension was not cached and had no analyzer directory
NoAnalyzerAt(k) ==
    \/ requests[k].extension = <<>>
    \/ ~requests[k].cached /\ requests[k].folder = "absent"

\* the lines of each output the analyzer can print
OutputLines ==
    [stdout \in {run.stdout : run \in AnalyzerRuns} \cup {NoProcess.stdout} |->
        SplitLines(stdout)]

\* the outputs with a line that the loop body cannot convert
Unparsable ==
    {stdout \in DOMAIN OutputLines :
        \E k \in 1..Len(OutputLines[stdout]) : ParseFields(OutputLines[stdout][k]).raised}

\* the last analyzer run exited non-zero or printed a line that does not parse
RunFailed == process.returncode # 0 \/ process.stdout \in Unparsable

\* C2: a file yields the fallback pair exactly when the registry resolves no
\* analyzer for it (no derivable extension, or no cached analyzer and no
\* analyzer directory); a non-zero exit or an unparsable output line adds no
\* pair for the file (no fallback, no partial tree) and ends the batch call
\* with the error.
C2_FallbackOnlyWithoutAnalyzer ==
    /\ \A k \in 1..Len(requests) : requests[k].result = "None" <=> NoAnalyzerAt(k)
    /\ (pc = "file" /\ file_no > 0) =>
          LET last == requests[Len(requests)]
              pair == grouped_ret[file_no]
          IN  /\ last.file = CurrentGroup[file_no]
              /\ pair = FallbackPair <=> last.result = "None"
              /\ pair # FallbackPair =>
                    /\ ~RunFailed
                    /\ Len(pair[2].elems) = Len(OutputLines[process.stdout]) + 1
    /\ RunFailed =>
          /\ pc = "raised"
          /\ error \in {"CalledProcessError", "ParseError"}
          /\ Len(grouped_ret) = file_no
          /\ file_no < Len(CurrentGroup)
          /\ Len(ret) = group_no

\* C2 witness: a batch call ended by a parse error after a fallback pair
C2_Witness ==
    /\ pc = "raised"
    /\ error = "ParseError"
    /\ RunFailed
    /\ grouped_ret = <<FallbackPair>>
    /\ ret = <<>>

SameKey(i, j) ==
    /\ i < j
    /\ requests[i].extension = requests[j].extension
    /\ requests[j].extension # <<>>

TouchesFs(j) == requests[j].exists \/ requests[j].read_text

\* C7 as stated: only the first request for an extension key touches the
\* filesystem, whatever the first request returned.
C7_OnlyFirstRequestTouchesFs ==
    \A i, j \in 1..Len(requests) : SameKey(i, j) => ~TouchesFs(j)

\* C7 amended: once a request for an extension key has returned an analyzer,
\* every later request for that key is answered with that analyzer from the
\* cache, with no directory probe and no descriptor read; a request for a key
\* for which no earlier request returned an analyzer probes the directory.
C7_NoFsAfterAnalyzerReturned ==
    /\ \A i, j \in 1..Len(requests) :
          (SameKey(i, j) /\ requests[i].result = "found") =>
              /\ ~TouchesFs(j)
              /\ requests[j].result = "found"
              /\ requests[j].semantics = requests[i].semantics
    /\ \A j \in 1..Len(requests) :
          (/\ requests[j].extension # <<>>
           /\ \A i \in 1..(j - 1) : SameKey(i, j) => requests[i].result # "found")
          => requests[j].exists

\* C7 witness: a key answered from the cache after its directory was removed
C7_Witness ==
    \E i, j \in 1..Len(requests) :
        /\ SameKey(i, j)
        /\ requests[i].result = "found"
        /\ requests[i].read_text
        /\ ~TouchesFs(j)
        /\ fs[requests[j].extension] = "absent"

\* C8: for a file with a registered analyzer, the second component of the
\* pair compute_semantic_weight returns is the file's numeric weight: the
\* value compute_weight gives for the parsed tree under the file's model.
C8_SecondComponentIsWeight ==
    (pc = "file" /\ file_no > 0 /\ grouped_ret[file_no] # FallbackPair) =>
        grouped_ret[file_no][2] =
            [class |-> "float",
             value |-> compute_weight(parse_structure(OutputLines[process.stdout]).elems,
                                      1, grouped_ret[file_no][1]).weight]

(***************************************************************************)
(* The anchor of the structure builder, checked under SpecParse.            *)
(***************************************************************************)
\* the range test of line 124 as the next iteration will evaluate it: on the
\* anchor, after lines 122-123 have raised root.end
NextRangeTest ==
    LET f  == ParseFields(lines[line_no + 1])
        e1 == [elems EXCEPT ![1].end = RaiseRootEnd(@, f.end)]
    IN  in_range(e1[parent], f.start, f.end)

\* C11: after every accepted line the anchor is the root and the tree is
\* flat: root.children is exactly the parsed elements in emission order, every
\* other element has no children and has the root as its parent, no parsed
\* start is negative, and the range test of the next accepted line succeeds,
\* so the branch that attaches to root and switches the anchor is never taken.
C11_AnchorIsAlwaysRoot ==
    parse_pc \in {"loop", "returned", "raised"} =>
        /\ parent = 1
        /\ elems[1].start = 0
        /\ elems[1].parent = None
        /\ elems[1].children = [k \in 1..(Len(elems) - 1) |-> k + 1]
        /\ Len(elems) = line_no + 1
        /\ \A k \in 2..Len(elems) :
            /\ elems[k].children = <<>>
            /\ elems[k].parent = 1
            /\ elems[k].start >= 0
            /\ elems[k].start = ParseFields(lines[k - 1]).start
            /\ elems[k].end = ParseFields(lines[k - 1]).end
            /\ elems[k].kind = ParseFields(lines[k - 1]).kind
        /\ (/\ parse_pc = "loop"
            /\ line_no < Len(lines)
            /\ ~ParseFields(lines[line_no + 1]).raised) => NextRangeTest

\* C11 witness: the example output returned as a flat tree, the functions
\* inside the range of the first class and the second class beyond it
C11_Witness ==
    /\ parse_pc = "returned"
    /\ lines = ExampleOutput
    /\ parent = 1
    /\ Len(elems[1].children) = 4
    /\ in_range(elems[2], elems[3].start, elems[3].end)
    /\ ~in_range(elems[2], elems[5].start, elems[5].end)
    /\ elems[2].kind = KindClass
    /\ elems[5].kind = KindClass

(***************************************************************************)
(* The assertion of compute_semantic_weight, checked under Spec.            *)
(***************************************************************************)
\* C12: the assertion `semantics is not None` never fails, whatever happens
\* to the analyzer directories between the has_semantic_parser check and the
\* second lookup: a check that returned true has stored the analyzer, the
\* cache never loses or replaces an entry, and the second lookup returns the
\* cached analyzer.
C12_AssertionNeverFails ==
    /\ pc = "raised" => error # "AssertionError"
    /\ \A k \in 1..Len(requests) :
          requests[k].result = "found" =>
              /\ requests[k].extension \in DOMAIN SEMANTIC_ANALYZERS
              /\ SEMANTIC_ANALYZERS[requests[k].extension] = requests[k].semantics
    /\ pc = "compute" =>
          /\ requests[Len(requests)].file = CurrentFile
          /\ requests[Len(requests)].result = "found"
    /\ pc = "analyze" =>
          LET n == Len(requests)
          IN  /\ requests[n].file = CurrentFile
              /\ requests[n - 1].file = CurrentFile
              /\ requests[n - 1].result = "found"
              /\ requests[n].result = "found"
              /\ requests[n].cached
              /\ ~TouchesFs(n)
              /\ semantics = requests[n - 1].semantics
              /\ semantics = SEMANTIC_ANALYZERS[Extension(CurrentFile)]

\* C12 witness: the directory was there at the check and gone at the second
\* lookup, which still returned the analyzer
C12_Witness ==
    /\ pc = "analyze"
    /\ Len(requests) >= 2
    /\ requests[Len(requests) - 1].folder = "target"
    /\ requests[Len(requests) - 1].read_text
    /\ requests[Len(requests)].folder = "absent"
    /\ requests[Len(requests)].result = "found"
    /\ semantics = requests[Len(requests)].semantics

====
